---------------------------- MODULE Spec2Model ----------------------------
(***************************************************************************)
(* Ostium trader-performance proof: the SP1 guest program                  *)
(* (sp1/program/src/main.rs) that aggregates closed trades and commits a   *)
(* 110-byte big-endian buffer, and the host-side decoder                   *)
(* (sp1/script/src/main.rs, decode_public_values) that reads it back.      *)
(*                                                                         *)
(* The program computes on u32/u64/u128/i64/i128 values, far beyond the    *)
(* range of TLC's built-in integers.  Numbers are therefore represented    *)
(* exactly: a natural number is its sequence of base-256 limbs, least      *)
(* significant first, without leading zero limbs (zero is <<>>); a signed  *)
(* number is a record [neg, mag].  A limb is one byte, so the machine      *)
(* widths of the program are limb counts and to_be_bytes is a reversal.    *)
(* Text (the String fields of the input) is a sequence of one-character    *)
(* strings.                                                                *)
(***************************************************************************)
EXTENDS Integers, Sequences, FiniteSets, Bags, TLC

(***************************************************************************)
(* Exact arithmetic on naturals (limb sequences).                          *)
(***************************************************************************)
Limb(a, k) == IF 1 <= k /\ k <= Len(a) THEN a[k] ELSE 0

\* a without its leading zero limbs
NNorm(a) ==
    IF a = <<>> THEN <<>>
    ELSE LET nz == {k \in 1..Len(a) : a[k] # 0}
         IN  IF nz = {} THEN <<>>
             ELSE SubSeq(a, 1, CHOOSE k \in nz : \A j \in nz : j <= k)

NFromInt(n) ==
    NNorm(<<n % 256, (n \div 256) % 256, (n \div 65536) % 256, n \div 16777216>>)

\* -1, 0 or 1 as a < b, a = b, a > b: decided by the most significant limb
\* in which a and b differ
NCmp(a, b) ==
    IF Len(a) < Len(b) THEN -1
    ELSE IF Len(a) > Len(b) THEN 1
    ELSE LET d == {k \in 1..Len(a) : a[k] # b[k]}
         IN  IF d = {} THEN 0
             ELSE LET top == CHOOSE k \in d : \A j \in d : j <= k
                  IN  IF a[top] < b[top] THEN -1 ELSE 1

NLt(a, b) == NCmp(a, b) < 0
NLe(a, b) == NCmp(a, b) <= 0

\* a + b.  The carry into limb k is 1 exactly when some lower limb pair
\* overflows and every pair between it and k sums to 255.
NAdd(a, b) ==
    IF b = <<>> THEN NNorm(a)
    ELSE IF a = <<>> THEN NNorm(b)
    ELSE LET n == (IF Len(a) < Len(b) THEN Len(b) ELSE Len(a)) + 1
             s == [k \in 1..n |-> Limb(a, k) + Limb(b, k)]
             carry(k) ==
                 \E j \in 1..(k - 1) :
                     s[j] > 255 /\ \A i \in (j + 1)..(k - 1) : s[i] = 255
         IN  NNorm([k \in 1..n |-> (s[k] + (IF carry(k) THEN 1 ELSE 0)) % 256])

\* a - b for a >= b.  The borrow into limb k is 1 exactly when some lower
\* limb of a is smaller than b's and every pair between it and k is equal.
NSub(a, b) ==
    IF b = <<>> \/ a = <<>> THEN a
    ELSE LET borrow(k) ==
                 \E j \in 1..(k - 1) :
                     a[j] < Limb(b, j) /\ \A i \in (j + 1)..(k - 1) : a[i] = Limb(b, i)
         IN  NNorm([k \in 1..Len(a) |->
                       (a[k] - Limb(b, k) - (IF borrow(k) THEN 1 ELSE 0) + 256) % 256])

\* a * m + c for 0 <= m < 256, 0 <= c < 256: the low bytes of the limb
\* products, plus their high bytes one limb up with c below them
NMulSmallAdd(a, m, c) ==
    IF a = <<>> \/ m = 0 THEN NFromInt(c)
    ELSE NAdd([k \in 1..Len(a) |-> (a[k] * m) % 256],
              <<c>> \o [k \in 1..Len(a) |-> (a[k] * m) \div 256])

NMulSmall(a, m) == NMulSmallAdd(a, m, 0)

Zeros(n) == [k \in 1..n |-> 0]

\* a * 256^n

\* the sum of the limb products a[i] * b[j] with i + j = p + 1 (the number
\* of elements of the bag holding each non-zero product that many times)
NMulColumn(a, b, p) ==
    BagCardinality([i \in {i \in 1..Len(a) : a[i] * Limb(b, p + 1 - i) > 0} |->
                       a[i] * Limb(b, p + 1 - i)])

\* a * b by columns: a column sum is below 256^3, so the product is the sum
\* of the columns' low, middle and high bytes, each one limb further up
NMul(a, b) ==
    IF a = <<>> \/ b = <<>> THEN <<>>
    ELSE NAdd(NAdd([p \in 1..(Len(a) + Len(b)) |-> NMulColumn(a, b, p) % 256],
                   <<0>> \o [p \in 1..(Len(a) + Len(b)) |->
                                (NMulColumn(a, b, p) \div 256) % 256]),
              <<0, 0>> \o [p \in 1..(Len(a) + Len(b)) |-> NMulColumn(a, b, p) \div 65536])

\* the quotient limb floor(r / b) for b <= r < 256 * b.  With bt the two
\* leading limbs of b and rt the limbs of r at and above them, the limb lies
\* between rt / (bt + 1) and rt / bt, which differ by at most 2.
QDigit(b, r) ==
    IF NLt(r, b) THEN 0
    ELSE IF Len(b) = 1 THEN (Limb(r, 1) + 256 * Limb(r, 2)) \div b[1]
    ELSE LET bt == b[Len(b) - 1] + 256 * b[Len(b)]
             rt == Limb(r, Len(b) - 1) + 256 * Limb(r, Len(b)) + 65536 * Limb(r, Len(b) + 1)
             hi == IF rt \div bt > 255 THEN 255 ELSE rt \div bt
         IN  CHOOSE d \in (rt \div (bt + 1))..hi :
                 NLe(NMulSmall(b, d), r) /\ (d = hi \/ NLt(r, NMulSmall(b, d + 1)))

\* long division: st.r is the running remainder, st.q the quotient limbs
\* found so far (least significant first); b # 0
NDivDigit(b, r1, q, d) == [q |-> <<d>> \o q, r |-> NSub(r1, NMulSmall(b, d))]

\* the quotient limb for the remainder r1 with the next limb brought down
NDivStep(b, r1, q) == NDivDigit(b, r1, q, QDigit(b, r1))

RECURSIVE NDivRange(_, _, _, _, _)
\* the state of the division after the limbs hi down to lo of a, from state
\* st, by halving the range; zero limbs under a zero remainder give zero digits
NDivRange(a, b, lo, hi, st) ==
    IF st.r = <<>> /\ \A k \in lo..hi : a[k] = 0
    THEN [r |-> <<>>, q |-> Zeros(hi - lo + 1) \o st.q]
    ELSE IF lo = hi THEN NDivStep(b, NNorm(<<a[lo]>> \o st.r), st.q)
    ELSE NDivRange(a, b, lo, (lo + hi) \div 2,
                   NDivRange(a, b, (lo + hi) \div 2 + 1, hi, st))

\* floor(a / b) for b # 0
NDiv(a, b) ==
    IF NLt(a, b) THEN <<>>
    ELSE NNorm(NDivRange(a, b, 1, Len(a), [r |-> <<>>, q |-> <<>>]).q)

\* 256^n and 256^n / 2
Pow256(n) == [k \in 1..(n + 1) |-> IF k = n + 1 THEN 1 ELSE 0]
HalfPow256(n) == [k \in 1..n |-> IF k = n THEN 128 ELSE 0]

\* a mod 256^n
NLow(a, n) == NNorm(SubSeq(a, 1, IF Len(a) < n THEN Len(a) ELSE n))

\* 10^0 .. 10^8
Pow10Int == <<1, 10, 100, 1000, 10000, 100000, 1000000, 10000000, 100000000>>

RECURSIVE NPow10(_)
NPow10(e) ==
    IF e < Len(Pow10Int) THEN NFromInt(Pow10Int[e + 1])
    ELSE NMul(NFromInt(Pow10Int[Len(Pow10Int)]), NPow10(e + 1 - Len(Pow10Int)))

(***************************************************************************)
(* Exact arithmetic on integers (sign and magnitude).                      *)
(***************************************************************************)
ZMk(neg, mag) == [neg |-> neg /\ mag # <<>>, mag |-> mag]
ZOfN(a) == ZMk(FALSE, a)
ZZero == ZMk(FALSE, <<>>)
ZNeg(x) == ZMk(~x.neg, x.mag)
ZAbs(x) == ZMk(FALSE, x.mag)

ZAdd(x, y) ==
    IF x.neg = y.neg THEN ZMk(x.neg, NAdd(x.mag, y.mag))
    ELSE IF NLe(y.mag, x.mag) THEN ZMk(x.neg, NSub(x.mag, y.mag))
    ELSE ZMk(y.neg, NSub(y.mag, x.mag))

ZSub(x, y) == ZAdd(x, ZNeg(y))
ZMul(x, y) == ZMk(x.neg # y.neg, NMul(x.mag, y.mag))

\* quotient truncated toward zero, y # 0
ZDivTrunc(x, y) == ZMk(x.neg # y.neg, NDiv(x.mag, y.mag))

ZLt(x, y) ==
    IF x.neg # y.neg THEN x.neg
    ELSE IF x.neg THEN NLt(y.mag, x.mag) ELSE NLt(x.mag, y.mag)

ZLe(x, y) == x = y \/ ZLt(x, y)
ZIsPos(x) == ~x.neg /\ x.mag # <<>>


(***************************************************************************)
(* Machine integers.  A width is a number of bytes.  An unsigned machine   *)
(* value is a natural below 256^w, a signed one an integer in              *)
(* [-256^w / 2, 256^w / 2).                                                *)
(***************************************************************************)
U32_BYTES == 4
U64_BYTES == 8
U128_BYTES == 16

\* x mod 256^w as a natural (two's complement bit pattern of x)
WrapU(x, w) ==
    IF x.neg /\ NLow(x.mag, w) # <<>> THEN NSub(Pow256(w), NLow(x.mag, w))
    ELSE NLow(x.mag, w)

\* the signed value of the w-byte bit pattern u
Signed(u, w) ==
    IF NLe(HalfPow256(w), u) THEN ZMk(TRUE, NSub(Pow256(w), u)) ELSE ZMk(FALSE, u)

\* the signed w-byte value with the bit pattern of x
WrapS(x, w) == Signed(WrapU(x, w), w)

FitsS(x, w) == WrapS(x, w) = x
FitsU(a, w) == Len(a) <= w

U64_MAX == NSub(Pow256(U64_BYTES), <<1>>)
I64_MIN == ZMk(TRUE, HalfPow256(U64_BYTES))

\* fault injection for C7: least significant byte first
to_le_bytes(n, w) == [k \in 1..w |-> Limb(n, k)]

\* n.to_be_bytes() of an unsigned w-byte value: w bytes, most significant first
to_be_bytes(n, w) == [k \in 1..w |-> Limb(n, w - k + 1)]

\* uN::from_be_bytes(bs)
from_be_bytes(bs) == NNorm([k \in 1..Len(bs) |-> bs[Len(bs) - k + 1]])

\* i64::to_be_bytes / i64::from_be_bytes: two's complement
to_be_bytes_signed(x, w) == to_be_bytes(WrapU(x, w), w)
from_be_bytes_signed(bs) == WrapS(ZOfN(from_be_bytes(bs)), Len(bs))

(***************************************************************************)
(* Text: str::parse::<uN>() and u8::from_str_radix(_, 16).                 *)
(***************************************************************************)
DecDigit ==
    ("0" :> 0) @@ ("1" :> 1) @@ ("2" :> 2) @@ ("3" :> 3) @@ ("4" :> 4) @@
    ("5" :> 5) @@ ("6" :> 6) @@ ("7" :> 7) @@ ("8" :> 8) @@ ("9" :> 9)

HexDigit ==
    DecDigit @@
    ("a" :> 10) @@ ("b" :> 11) @@ ("c" :> 12) @@ ("d" :> 13) @@ ("e" :> 14) @@
    ("f" :> 15) @@
    ("A" :> 10) @@ ("B" :> 11) @@ ("C" :> 12) @@ ("D" :> 13) @@ ("E" :> 14) @@
    ("F" :> 15)

\* an optional leading "+" is accepted by the integer parsers, a "-" is not
StripPlus(s) == IF s # <<>> /\ s[1] = "+" THEN Tail(s) ELSE s

\* the value of the n <= 9 digits of s from character k on (the number of
\* elements of the bag holding each non-zero digit its weight many times)
ChunkValue(s, k, n) ==
    BagCardinality([i \in {i \in 1..n : DecDigit[s[k + i - 1]] > 0} |->
                       DecDigit[s[k + i - 1]] * Pow10Int[n + 1 - i]])

RECURSIVE ParseDigits(_, _, _, _)
\* the digit loop of the parser from character k on, nine digits at a time:
\* acc * 10 + digit with checked arithmetic.  The accumulator never
\* decreases, so the parse fails exactly when some accumulator does not fit
\* w bytes
ParseDigits(s, k, acc, w) ==
    IF ~FitsU(acc, w) THEN [ok |-> FALSE, val |-> <<>>]
    ELSE IF k > Len(s) THEN [ok |-> TRUE, val |-> acc]
    ELSE IF Len(s) - k + 1 < Len(Pow10Int)
    THEN ParseDigits(s, Len(s) + 1,
                     NAdd(NMul(acc, NPow10(Len(s) - k + 1)),
                          NFromInt(ChunkValue(s, k, Len(s) - k + 1))), w)
    ELSE ParseDigits(s, k + Len(Pow10Int),
                     NAdd(NMul(acc, NPow10(Len(Pow10Int))),
                          NFromInt(ChunkValue(s, k, Len(Pow10Int)))), w)

\* s.parse::<uN>() for a w-byte unsigned type: Ok(value) or Err
ParseUnsigned(s, w) ==
    LET digits == StripPlus(s)
    IN  IF digits = <<>> \/ \E k \in 1..Len(digits) : digits[k] \notin DOMAIN DecDigit
        THEN [ok |-> FALSE, val |-> <<>>]
        ELSE ParseDigits(digits, 1, <<>>, w)

unwrap_or(res, default) == IF res.ok THEN res.val ELSE default

parse_u128(s) == unwrap_or(ParseUnsigned(s, U128_BYTES), <<>>)

parse_u64(s) == unwrap_or(ParseUnsigned(s, U64_BYTES), <<>>)

\* u8::from_str_radix(byte_hex, 16).unwrap_or(0) for a two-character slice
ParseHexByte(byte_hex) ==
    LET digits == StripPlus(byte_hex)
    IN  IF digits = <<>> \/ \E k \in 1..Len(digits) : digits[k] \notin DOMAIN HexDigit
        THEN 0
        ELSE IF Len(digits) = 1 THEN HexDigit[digits[1]]
        ELSE 16 * HexDigit[digits[1]] + HexDigit[digits[2]]

ADDRESS_BYTES == 20

strip_prefix_0x(addr) ==
    IF Len(addr) >= 2 /\ addr[1] = "0" /\ addr[2] = "x"
    THEN SubSeq(addr, 3, Len(addr)) ELSE addr

\* decode_address: the slice &hex[i*2..i*2+2] panics when hex has fewer than
\* i*2+2 characters, which happens for some i < 20 exactly when Len(hex) < 40
decode_address(addr) ==
    LET hex == strip_prefix_0x(addr)
    IN  IF \E k \in 0..(ADDRESS_BYTES - 1) : k * 2 + 2 > Len(hex)
        THEN [ok |-> FALSE, bytes |-> <<>>]
        ELSE [ok |-> TRUE,
              bytes |-> [k \in 1..ADDRESS_BYTES |->
                            ParseHexByte(SubSeq(hex, 2 * k - 1, 2 * k))]]

(***************************************************************************)
(* Inputs: the Trade and FeaturedPosition records read from the host.      *)
(***************************************************************************)
Rep(c, n) == [k \in 1..n |-> c]

\* 0xaB00..001f: a well-formed address, mixed case
AddrA == <<"0", "x", "a", "B">> \o Rep("0", 36) \o <<"1", "f">>
\* 40 characters after the prefix, some pairs not hexadecimal
AddrNonHex == <<"0", "x", "z", "z", "+", "7", "-", "1">> \o Rep("c", 34)
\* odd length, shorter than 40 characters
AddrShort == <<"0", "x", "1", "2", "3">>
\* no prefix, 41 characters, the 20th pair not hexadecimal
AddrNoPrefix == <<"D", "e">> \o Rep("7", 37) \o <<"g", "4">>

Txt1e18 == <<"1">> \o Rep("0", 18)
TxtU64Max ==
    <<"1", "8", "4", "4", "6", "7", "4", "4", "0", "7",
      "3", "7", "0", "9", "5", "5", "1", "6", "1", "5">>
TxtU128Max ==
    <<"3", "4", "0", "2", "8", "2", "3", "6", "6", "9", "2", "0", "9",
      "3", "8", "4", "6", "3", "4", "6", "3", "3", "7", "4", "6", "0",
      "7", "4", "3", "1", "7", "6", "8", "2", "1", "1", "4", "5", "5">>
\* (2^63 - 1) * 10^12
TxtI64MaxE12 ==
    <<"9", "2", "2", "3", "3", "7", "2", "0", "3", "6",
      "8", "5", "4", "7", "7", "5", "8", "0", "7">> \o Rep("0", 12)

\* 100 USDC at 50x, price 1.0 -> 1.01, long, no fees
TradeExample ==
    [trader |-> AddrA, is_buy |-> TRUE,
     collateral |-> <<"1">> \o Rep("0", 8), leverage |-> <<"5", "0", "0", "0">>,
     open_price |-> Txt1e18, close_price |-> <<"1", "0", "1">> \o Rep("0", 16),
     timestamp |-> <<"1", "7">> \o Rep("0", 8),
     funding |-> <<"0">>, rollover |-> <<"0">>]

\* a losing short whose quotient -1050 / 300 is not an integer; funding 2.5 micros
TradeLoss ==
    [trader |-> AddrNonHex, is_buy |-> FALSE,
     collateral |-> <<"7">>, leverage |-> <<"1", "5", "0">>,
     open_price |-> <<"3">>, close_price |-> <<"4">>,
     timestamp |-> <<"1", "6">> \o Rep("0", 8),
     funding |-> <<"2", "5">> \o Rep("0", 11), rollover |-> Rep("9", 12)]

\* open price zero, funding fee of 3 micros
TradeZeroOpen ==
    [trader |-> AddrA, is_buy |-> TRUE,
     collateral |-> <<"5">> \o Rep("0", 7), leverage |-> <<"1", "0", "0", "0">>,
     open_price |-> <<"0">>, close_price |-> <<"2">> \o Rep("0", 18),
     timestamp |-> <<"1", "8">> \o Rep("0", 8),
     funding |-> <<"3">> \o Rep("0", 12), rollover |-> <<"0">>]

\* malformed address, collateral, open price and timestamp; fees below one micro
TradeGarbage ==
    [trader |-> AddrShort, is_buy |-> FALSE,
     collateral |-> <<"1", "2", "x">>, leverage |-> <<"0", "1", "0", "0">>,
     open_price |-> <<"a", "b", "c">>, close_price |-> <<"+", "5">>,
     timestamp |-> <<"s", "o", "o", "n">>,
     funding |-> <<"5">>, rollover |-> <<"+", "7">>]

\* close price 2^128 - 1, timestamp 2^64 - 1
TradeWideClose ==
    [trader |-> AddrA, is_buy |-> TRUE,
     collateral |-> <<"1">>, leverage |-> <<"1", "0", "0">>,
     open_price |-> <<"1">>, close_price |-> TxtU128Max,
     timestamp |-> TxtU64Max,
     funding |-> <<"0">>, rollover |-> <<"0">>]

\* a loss of 500000 micros with funding of 2^63 - 1 micros and rollover of 2
TradeBigFee ==
    [trader |-> AddrA, is_buy |-> TRUE,
     collateral |-> <<"1">> \o Rep("0", 6), leverage |-> <<"1", "0", "0">>,
     open_price |-> <<"2">>, close_price |-> <<"1">>,
     timestamp |-> <<"1", "5">> \o Rep("0", 8),
     funding |-> TxtI64MaxE12, rollover |-> <<"2">> \o Rep("0", 12)]

TradeSet ==
    {TradeExample, TradeLoss, TradeZeroOpen, TradeGarbage, TradeWideClose, TradeBigFee}

FeaturedOpen ==
    [trader |-> AddrNoPrefix, trade_id |-> NFromInt(12345), pair_index |-> NFromInt(7),
     is_buy |-> TRUE, leverage |-> <<"5", "0", "0">>,
     collateral |-> <<"2", "5">> \o Rep("0", 7),
     entry_price |-> <<"6", "5">> \o Rep("0", 21),
     is_open |-> TRUE, timestamp |-> <<"1", "7", "1">> \o Rep("0", 7)]

\* every field at or beyond the edge of its committed width
FeaturedEdge ==
    [trader |-> AddrShort, trade_id |-> U64_MAX,
     pair_index |-> NSub(Pow256(U32_BYTES), <<1>>),
     is_buy |-> FALSE, leverage |-> <<"4", "2", "9", "4", "9", "6", "7", "2", "9", "7">>,
     collateral |-> TxtU64Max \o <<"0">>,
     entry_price |-> TxtU128Max,
     is_open |-> FALSE, timestamp |-> <<"x">>]

FeaturedSet == {FeaturedOpen, FeaturedEdge}

\* longest trade sequence explored
MaxTrades == 2
\* bytes appended to the committed buffer before it is handed to the decoder
MaxExtra == 1

RECURSIVE SeqsUpTo(_, _)
SeqsUpTo(S, n) ==
    IF n = 0 THEN {<<>>}
    ELSE LET shorter == SeqsUpTo(S, n - 1)
         IN  shorter \cup {Append(q, x) : q \in {r \in shorter : Len(r) = n - 1}, x \in S}

(***************************************************************************)
(* The guest program: per-trade arithmetic.                                *)
(***************************************************************************)
\* u128 as i128, u128 as i64, u128 as u64, u128 as u32: casts never abort
as_i128(a) == WrapS(ZOfN(a), U128_BYTES)
as_i64(x) == WrapS(x, U64_BYTES)
as_u64(a) == NLow(a, U64_BYTES)
as_u32(a) == NLow(a, U32_BYTES)

Z100 == ZOfN(<<100>>)
FEE_SCALE == NMul(NFromInt(1000000), NFromInt(1000000))

\* fault injection for C3: the guard on the open price dropped
HasOpenPriceAlways(open_price) == TRUE

\* if open_price > 0
HasOpenPrice(open_price) == open_price # <<>>

\* fault injection for C8: division rounding toward minus infinity
FloorQuotient(numerator, denominator, q) ==
    IF numerator.neg # denominator.neg /\ NMul(q, denominator.mag) # numerator.mag
    THEN ZMk(TRUE, NAdd(q, <<1>>))
    ELSE ZMk(numerator.neg # denominator.neg, q)

i128_div_floor(numerator, denominator) ==
    FloorQuotient(numerator, denominator, NDiv(numerator.mag, denominator.mag))

\* numerator / denominator on i128
i128_div(numerator, denominator) == ZDivTrunc(numerator, denominator)

\* fault injection for C1: trade_count = 1
NextTradeCountAssign(n) == 1

\* trade_count += 1
NextTradeCount(n) == n + 1

\* the outcome of + - * abs in a signed w-byte type: the wrapped value, and
\* whether this or an earlier operation left the type's range (the run aborts
\* under overflow checks, continues with the wrapped value otherwise)
Checked(exact, w, earlier) ==
    [overflow |-> earlier \/ ~FitsS(exact, w), val |-> WrapS(exact, w)]

\* close_price as i128 - open_price as i128, or the reverse for a short
PriceDiff(is_buy, open, close) ==
    Checked(IF is_buy THEN ZSub(close, open) ELSE ZSub(open, close), U128_BYTES, FALSE)

\* collateral_micros as i128 * leverage as i128
Product(collateral, leverage) == Checked(ZMul(collateral, leverage), U128_BYTES, FALSE)

\* ... * price_diff
Numerator(product, price_diff) ==
    Checked(ZMul(product.val, price_diff.val), U128_BYTES,
            product.overflow \/ price_diff.overflow)

\* open_price as i128 * 100
Denominator(open) == Checked(ZMul(open, Z100), U128_BYTES, FALSE)

\* numerator / denominator, or zero where the division aborts on a zero
\* denominator
Quotient(num, den) == IF den.val = ZZero THEN ZZero ELSE i128_div(num.val, den.val)

\* the price component of a trade's PnL, (numerator / denominator) as i64.
\* div_by_zero, div_overflow: the division aborts in every build
PricePnl(open_price, num, den, quotient) ==
    IF ~HasOpenPrice(open_price)
    THEN [overflow |-> FALSE, div_by_zero |-> FALSE, div_overflow |-> FALSE, val |-> ZZero]
    ELSE [overflow |-> num.overflow \/ den.overflow,
          div_by_zero |-> den.val = ZZero,
          div_overflow |-> ~FitsS(quotient, U128_BYTES),
          val |-> as_i64(quotient)]

\* (funding / 1_000_000_000_000) as i64, and likewise for rollover, for the
\* u128 quotient scaled
fee_micros(scaled) == as_i64(ZOfN(scaled))

\* x.abs() on i64
i64_abs(x) == Checked(ZAbs(x), U64_BYTES, FALSE)

\* funding_micros.abs() + rollover_micros.abs()
FeeSum(funding_abs, rollover_abs) ==
    Checked(ZAdd(funding_abs.val, rollover_abs.val), U64_BYTES,
            funding_abs.overflow \/ rollover_abs.overflow)

\* trade_pnl_micros -= sum
FeeStep(trade_pnl, sum) == Checked(ZSub(trade_pnl, sum.val), U64_BYTES, sum.overflow)

\* if trade_pnl_micros > 0
IsWin(trade_pnl) == ZIsPos(trade_pnl)

\* fault injection for C10: comparison reversed
MinTimestampReversed(ts, start) == IF NLt(start, ts) THEN ts ELSE start

\* if ts < start_timestamp { start_timestamp = ts; }
MinTimestamp(ts, start) == IF NLt(ts, start) THEN ts ELSE start

\* if ts > end_timestamp { end_timestamp = ts; }
MaxTimestamp(ts, end) == IF NLt(end, ts) THEN ts ELSE end

\* fault injection for C2: the sentinel left in place
EmptyStartKeep(ts, start) == start

\* if trades.is_empty() { start_timestamp = 0; }
EmptyStart(ts, start) == IF ts = <<>> THEN <<>> ELSE start

(***************************************************************************)
(* The committed buffer and the host's decoder.                            *)
(***************************************************************************)
PUBLIC_VALUES_LEN == 110

\* the fifteen commit_slice calls, in order
EncodePublicValues(trader, tc, wc, pnl, coll, start, end, f) ==
    trader
    \o to_be_bytes(tc, U32_BYTES)
    \o to_be_bytes(wc, U32_BYTES)
    \o to_be_bytes_signed(pnl, U64_BYTES)
    \o to_be_bytes(coll, U64_BYTES)
    \o to_be_bytes(start, U64_BYTES)
    \o to_be_bytes(end, U64_BYTES)
    \o to_be_bytes(f.trade_id, U64_BYTES)
    \o to_be_bytes(f.pair_index, U32_BYTES)
    \o <<f.is_buy>>
    \o to_be_bytes(f.leverage, U32_BYTES)
    \o to_be_bytes(f.collateral_micros, U64_BYTES)
    \o to_be_bytes(f.entry_price, U128_BYTES)
    \o <<f.is_open>>
    \o to_be_bytes(f.timestamp, U64_BYTES)

\* bytes[from..to] (Rust ranges are zero-based and exclude their end)
Slice(bs, from, to) == SubSeq(bs, from + 1, to)

\* fault injection for C6: off by one
LengthOkStrict(bs) == Len(bs) > PUBLIC_VALUES_LEN

\* assert!(bytes.len() >= 110, ...)
LengthOk(bs) == Len(bs) >= PUBLIC_VALUES_LEN

\* the integer locals of decode_public_values, before the f64 rescaling
DecodeFields(bs) ==
    [trader |-> Slice(bs, 0, 20),
     trade_count |-> from_be_bytes(Slice(bs, 20, 24)),
     win_count |-> from_be_bytes(Slice(bs, 24, 28)),
     total_pnl_micros |-> from_be_bytes_signed(Slice(bs, 28, 36)),
     total_collateral_micros |-> from_be_bytes(Slice(bs, 36, 44)),
     start_timestamp |-> from_be_bytes(Slice(bs, 44, 52)),
     end_timestamp |-> from_be_bytes(Slice(bs, 52, 60)),
     featured_trade_id |-> from_be_bytes(Slice(bs, 60, 68)),
     featured_pair_index |-> from_be_bytes(Slice(bs, 68, 72)),
     featured_is_buy |-> bs[73] = 1,
     featured_leverage_raw |-> from_be_bytes(Slice(bs, 73, 77)),
     featured_collateral_micros |-> from_be_bytes(Slice(bs, 77, 85)),
     featured_entry_price_raw |-> from_be_bytes(Slice(bs, 85, 101)),
     featured_is_open |-> bs[102] = 1,
     featured_timestamp |-> from_be_bytes(Slice(bs, 102, 110))]

(***************************************************************************)
(* State.                                                                  *)
(***************************************************************************)
VARIABLES
    trades,                  \* input.trades
    featured,                \* input.featured
    overflow_checks,         \* whether the guest was built with overflow checks
    pc,                      \* position in the guest, then in the host's decoder
    idx,                     \* number of trades the for loop has consumed
    trade_count,
    win_count,
    total_pnl_micros,
    total_collateral_micros,
    start_timestamp,
    end_timestamp,
    trader_bytes,
    price_pnl_micros,        \* trade_pnl_micros before the fee step (last iteration)
    trade_pnl_micros,        \* trade_pnl_micros after the fee step (last iteration)
    featured_vals,           \* the featured_* locals of main
    public_values,           \* the bytes committed so far
    bytes,                   \* the buffer handed to decode_public_values
    decoded,                 \* what decode_public_values read
    panic                    \* why the run aborted, or "none"

vars ==
    <<trades, featured, overflow_checks, pc, idx, trade_count, win_count,
      total_pnl_micros, total_collateral_micros, start_timestamp, end_timestamp,
      trader_bytes, price_pnl_micros, trade_pnl_micros, featured_vals,
      public_values, bytes, decoded, panic>>

inputs == <<trades, featured, overflow_checks>>
aggregate ==
    <<idx, trade_count, win_count, total_pnl_micros, total_collateral_micros,
      start_timestamp, end_timestamp, trader_bytes, price_pnl_micros, trade_pnl_micros>>
host == <<bytes, decoded>>

NoFeatured == [set |-> FALSE]
NoDecoded == [set |-> FALSE]

Init ==
    /\ trades \in SeqsUpTo(TradeSet, MaxTrades)
    /\ featured \in FeaturedSet
    /\ overflow_checks \in BOOLEAN
    /\ pc = "loop"
    /\ idx = 0
    /\ trade_count = 0
    /\ win_count = 0
    /\ total_pnl_micros = ZZero
    /\ total_collateral_micros = <<>>
    /\ start_timestamp = U64_MAX
    /\ end_timestamp = <<>>
    /\ trader_bytes = Rep(0, ADDRESS_BYTES)
    /\ price_pnl_micros = ZZero
    /\ trade_pnl_micros = ZZero
    /\ featured_vals = NoFeatured
    /\ public_values = <<>>
    /\ bytes = <<>>
    /\ decoded = NoDecoded
    /\ panic = "none"

Abort(reason) ==
    /\ pc' = "panicked"
    /\ panic' = reason
    /\ UNCHANGED <<inputs, aggregate, featured_vals, public_values, host>>

\* the numeric locals one iteration parses from the text fields of a record
ParseTrade(trade) ==
    [is_buy |-> trade.is_buy,
     collateral_micros |-> parse_u128(trade.collateral),
     open_price |-> parse_u128(trade.open_price),
     close_price |-> parse_u128(trade.close_price),
     leverage |-> parse_u128(trade.leverage),
     funding |-> parse_u128(trade.funding),
     rollover |-> parse_u128(trade.rollover),
     ts |-> parse_u64(trade.timestamp)]

\* one iteration of `for trade in &trades`
LoopIteration ==
    /\ pc = "loop"
    /\ idx < Len(trades)
    /\ \E addr \in {IF trade_count = 0 THEN decode_address(trades[idx + 1].trader)
                    ELSE [ok |-> TRUE, bytes |-> trader_bytes]},
          num \in {ParseTrade(trades[idx + 1])} :
       \E coll_exact \in {NAdd(total_collateral_micros, as_u64(num.collateral_micros))},
          price_diff \in {PriceDiff(num.is_buy, as_i128(num.open_price),
                                    as_i128(num.close_price))},
          product \in {Product(as_i128(num.collateral_micros), as_i128(num.leverage))},
          denominator \in {Denominator(as_i128(num.open_price))},
          funding_scaled \in {NDiv(num.funding, FEE_SCALE)},
          rollover_scaled \in {NDiv(num.rollover, FEE_SCALE)} :
       \E numerator \in {Numerator(product, price_diff)},
          fee_sum \in {FeeSum(i64_abs(fee_micros(funding_scaled)),
                              i64_abs(fee_micros(rollover_scaled)))} :
       \E quotient \in {Quotient(numerator, denominator)} :
       \E price \in {PricePnl(num.open_price, numerator, denominator, quotient)} :
       \E fee \in {FeeStep(price.val, fee_sum)} :
       \E total \in {Checked(ZAdd(total_pnl_micros, fee.val), U64_BYTES, fee.overflow)} :
           IF ~addr.ok THEN Abort("slice_index")
           ELSE IF overflow_checks /\ (~FitsU(coll_exact, U64_BYTES) \/ price.overflow)
           THEN Abort("overflow")
           ELSE IF price.div_by_zero THEN Abort("div_by_zero")
           ELSE IF price.div_overflow THEN Abort("overflow")
           ELSE IF overflow_checks /\ total.overflow
           THEN Abort("overflow")
           ELSE /\ trader_bytes' = addr.bytes
                /\ trade_count' = NextTradeCount(trade_count)
                /\ total_collateral_micros' = as_u64(coll_exact)
                /\ price_pnl_micros' = price.val
                /\ trade_pnl_micros' = fee.val
                /\ total_pnl_micros' = total.val
                /\ win_count' = IF IsWin(fee.val) THEN win_count + 1 ELSE win_count
                /\ start_timestamp' = MinTimestamp(num.ts, start_timestamp)
                /\ end_timestamp' = MaxTimestamp(num.ts, end_timestamp)
                /\ idx' = idx + 1
                /\ UNCHANGED <<inputs, pc, featured_vals, public_values, host, panic>>

\* if trades.is_empty() { ... } after the loop
PostLoop ==
    /\ pc = "loop"
    /\ idx = Len(trades)
    /\ LET addr == IF trades = <<>> THEN decode_address(featured.trader)
                   ELSE [ok |-> TRUE, bytes |-> trader_bytes]
       IN  IF ~addr.ok THEN Abort("slice_index")
           ELSE /\ start_timestamp' = EmptyStart(trades, start_timestamp)
                /\ trader_bytes' = addr.bytes
                /\ pc' = "featured"
                /\ UNCHANGED <<inputs, idx, trade_count, win_count, total_pnl_micros,
                               total_collateral_micros, end_timestamp,
                               price_pnl_micros, trade_pnl_micros, featured_vals,
                               public_values, host, panic>>

\* Part 2: featured position data
FeaturedFields ==
    /\ pc = "featured"
    /\ featured_vals' =
          [set |-> TRUE,
           trade_id |-> featured.trade_id,
           pair_index |-> featured.pair_index,
           is_buy |-> IF featured.is_buy THEN 1 ELSE 0,
           leverage |-> as_u32(parse_u128(featured.leverage)),
           collateral_micros |-> as_u64(parse_u128(featured.collateral)),
           entry_price |-> parse_u128(featured.entry_price),
           is_open |-> IF featured.is_open THEN 1 ELSE 0,
           timestamp |-> parse_u64(featured.timestamp)]
    /\ pc' = "commit"
    /\ UNCHANGED <<inputs, aggregate, public_values, host, panic>>

\* the commit_slice calls
Commit ==
    /\ pc = "commit"
    /\ public_values' =
          EncodePublicValues(trader_bytes, NFromInt(trade_count), NFromInt(win_count),
                             total_pnl_micros, total_collateral_micros,
                             start_timestamp, end_timestamp, featured_vals)
    /\ pc' = "committed"
    /\ UNCHANGED <<inputs, aggregate, featured_vals, host, panic>>

\* lengths of the buffers handed to the decoder
DecodeLens == {0, 60, 100, 109, PUBLIC_VALUES_LEN, PUBLIC_VALUES_LEN + MaxExtra}

\* the host calls decode_public_values(public_bytes); the buffer is the guest's
\* output, cut short or extended
DecodePublicValues ==
    /\ pc = "committed"
    /\ \E n \in DecodeLens :
          LET buf == SubSeq(public_values \o Rep(255, MaxExtra), 1, n)
          IN  /\ bytes' = buf
              /\ IF LengthOk(buf)
                 THEN /\ decoded' = [set |-> TRUE] @@ DecodeFields(buf)
                      /\ pc' = "decoded"
                      /\ panic' = "none"
                 ELSE /\ decoded' = NoDecoded
                      /\ pc' = "decode_failed"
                      /\ panic' = "length_assert"
    /\ UNCHANGED <<inputs, aggregate, featured_vals, public_values>>

Next ==
    \/ LoopIteration
    \/ PostLoop
    \/ FeaturedFields
    \/ Commit
    \/ DecodePublicValues

Spec == Init /\ [][Next]_vars

(***************************************************************************)
(* Reference values over unbounded integers, for the properties below.     *)
(***************************************************************************)
\* the parsed numeric fields of a trade
Parsed(t) ==
    [is_buy |-> t.is_buy,
     collateral |-> parse_u128(t.collateral), leverage |-> parse_u128(t.leverage),
     open_price |-> parse_u128(t.open_price), close_price |-> parse_u128(t.close_price),
     funding |-> parse_u128(t.funding), rollover |-> parse_u128(t.rollover)]

\* the operators below take the parsed fields p of a trade
ExactPriceDiff(p) ==
    IF p.is_buy THEN ZSub(ZOfN(p.close_price), ZOfN(p.open_price))
    ELSE ZSub(ZOfN(p.open_price), ZOfN(p.close_price))

ExactNumerator(p) ==
    ZMul(ZMul(ZOfN(p.collateral), ZOfN(p.leverage)), ExactPriceDiff(p))

ExactDenominator(p) == ZMul(ZOfN(p.open_price), ZOfN(<<100>>))

\* collateral * leverage * priceDiff / (openPrice * 100), truncated toward zero
ExactPricePnl(p) ==
    IF p.open_price = <<>> THEN ZZero
    ELSE ZDivTrunc(ExactNumerator(p), ExactDenominator(p))

\* funding div 10^12 + rollover div 10^12
ExactFees(p) ==
    ZOfN(NAdd(NDiv(p.funding, NPow10(12)), NDiv(p.rollover, NPow10(12))))

ExactTradePnl(p) == ZSub(ExactPricePnl(p), ExactFees(p))

RECURSIVE ExactTotalPnl(_)
ExactTotalPnl(k) ==
    IF k = 0 THEN ZZero
    ELSE ZAdd(ExactTotalPnl(k - 1), ExactTradePnl(Parsed(trades[k])))

RECURSIVE ExactTotalCollateral(_)
ExactTotalCollateral(k) ==
    IF k = 0 THEN <<>>
    ELSE NAdd(ExactTotalCollateral(k - 1), Parsed(trades[k]).collateral)

\* the numeric fields are unsigned decimal text within the data model's ranges
InRange(t) ==
    /\ ParseUnsigned(t.collateral, 8).ok
    /\ ParseUnsigned(t.leverage, 16).ok
    /\ ParseUnsigned(t.open_price, 16).ok
    /\ ParseUnsigned(t.close_price, 16).ok
    /\ ParseUnsigned(t.funding, 16).ok
    /\ ParseUnsigned(t.rollover, 16).ok

\* every intermediate of the price component is representable where the
\* program holds it: the parsed fields in i128, the products in i128, the
\* quotient in i64
PriceFits(p) ==
    /\ \A f \in {"collateral", "leverage", "open_price", "close_price"} :
          FitsS(ZOfN(p[f]), 16)
    /\ FitsS(ZMul(ZOfN(p.collateral), ZOfN(p.leverage)), 16)
    /\ FitsS(ExactNumerator(p), 16)
    /\ FitsS(ExactDenominator(p), 16)
    /\ FitsS(ExactPricePnl(p), 8)

\* collateral=100000000, leverage=5000, open=10^18, close=1.01*10^18, buy, no fees
IsExample(p) ==
    /\ p.is_buy
    /\ p.collateral = NPow10(8)
    /\ p.leverage = NFromInt(5000)
    /\ p.open_price = NPow10(18)
    /\ p.close_price = NMulSmall(NPow10(16), 101)
    /\ p.funding = <<>>
    /\ p.rollover = <<>>

\* the trade of the last completed iteration, parsed
Last == Parsed(trades[idx])

AfterLoop == pc \in {"featured", "commit", "committed", "decoded", "decode_failed"}
Committed == pc \in {"committed", "decoded", "decode_failed"}

(***************************************************************************)
(* Properties.                                                             *)
(***************************************************************************)

\* C1: trade_count equals the number of records consumed, so after the loop
\* and in the committed bytes it equals the number of input records; and
\* win_count <= trade_count after every iteration and in the committed bytes.
C1_TradeCount ==
    /\ trade_count = idx
    /\ win_count <= trade_count
    /\ AfterLoop => trade_count = Len(trades)
    /\ Committed =>
          /\ from_be_bytes(Slice(public_values, 20, 24)) = NFromInt(Len(trades))
          /\ NLe(from_be_bytes(Slice(public_values, 24, 28)),
                 from_be_bytes(Slice(public_values, 20, 24)))

C1_Witness == pc = "committed" /\ Len(trades) = 2 /\ win_count = 1

\* C2: with no trades the committed aggregate is all zero (trade_count,
\* win_count, total_pnl, total_collateral, start_timestamp, end_timestamp)
\* and the trader bytes are the decoded address of the featured position.
C2_EmptyInput ==
    (trades = <<>> /\ Committed) =>
        /\ trade_count = 0 /\ win_count = 0
        /\ total_pnl_micros = ZZero /\ total_collateral_micros = <<>>
        /\ start_timestamp = <<>> /\ end_timestamp = <<>>
        /\ trader_bytes = decode_address(featured.trader).bytes
        /\ Slice(public_values, 0, 20) = decode_address(featured.trader).bytes
        /\ Slice(public_values, 20, 60) = Rep(0, 40)

C2_Witness == trades = <<>> /\ pc = "committed" /\ public_values[1] = 222

ZeroOpenStep ==
    /\ pc = "loop"
    /\ idx < Len(trades)
    /\ Parsed(trades[idx + 1]).open_price = <<>>

FeesBelowOneMicro(t) ==
    NLt(Parsed(t).funding, NPow10(12)) /\ NLt(Parsed(t).rollover, NPow10(12))

\* C3 as stated: an iteration over a trade whose open price parses to zero
\* leaves total_pnl as it was and counts no win, whatever the other fields.
C3_ZeroOpenContributesNothing ==
    [][(ZeroOpenStep /\ idx' = idx + 1) =>
          (total_pnl_micros' = total_pnl_micros /\ win_count' = win_count)]_vars

\* C3 amended: for a trade whose open price parses to zero the division is
\* skipped (the run never aborts on a division by zero) and the price
\* component is zero whatever collateral, leverage, close price and direction
\* are; the fee step still runs, so total_pnl is unchanged and no win is
\* counted when funding and rollover are both below 10^12.
C3_ZeroOpenPriceComponent ==
    [][ZeroOpenStep =>
          /\ panic' # "div_by_zero"
          /\ idx' = idx + 1 =>
                /\ price_pnl_micros' = ZZero
                /\ FeesBelowOneMicro(trades[idx + 1]) =>
                      (total_pnl_micros' = total_pnl_micros /\ win_count' = win_count)]_vars

C3_Witness ==
    /\ idx >= 1
    /\ Last.open_price = <<>>
    /\ Last.collateral # <<>>
    /\ Last.close_price # <<>>
    /\ price_pnl_micros = ZZero
    /\ trade_pnl_micros = ZMk(TRUE, <<3>>)

\* C4: address decoding never aborts the run, and yields 20 bytes.
C4_DecodeAddressTotal ==
    /\ panic # "slice_index"
    /\ Len(trader_bytes) = 20

\* C5: for trades within the data model's ranges nothing overflows: the run
\* never aborts on arithmetic, and the price component, the post-fee PnL and
\* the running sums equal the values computed over unbounded integers.
C5_NoOverflowObservable ==
    (\A k \in 1..Len(trades) : InRange(trades[k])) =>
        /\ panic \notin {"overflow", "div_by_zero"}
        /\ idx >= 1 =>
              /\ price_pnl_micros = ExactPricePnl(Last)
              /\ trade_pnl_micros = ExactTradePnl(Last)
        /\ total_pnl_micros = ExactTotalPnl(idx)
        /\ total_collateral_micros = ExactTotalCollateral(idx)

\* C6: decode_public_values fails on the length assertion, with nothing
\* decoded, for every buffer shorter than 110 bytes, and succeeds otherwise.
C6_DecodeLength ==
    pc \in {"decoded", "decode_failed"} =>
        IF Len(bytes) < 110
        THEN pc = "decode_failed" /\ panic = "length_assert" /\ decoded = NoDecoded
        ELSE pc = "decoded" /\ decoded.set /\ panic = "none"

C6_Witness == pc = "decode_failed" /\ Len(bytes) = 100

\* C7: the committed buffer is 110 bytes and decode_public_values reads back,
\* before rescaling, exactly the fifteen values the guest committed.
C7_RoundTrip ==
    /\ Committed => Len(public_values) = 110
    /\ pc = "decoded" =>
          /\ decoded.trader = trader_bytes
          /\ decoded.trade_count = NFromInt(trade_count)
          /\ decoded.win_count = NFromInt(win_count)
          /\ decoded.total_pnl_micros = total_pnl_micros
          /\ decoded.total_collateral_micros = total_collateral_micros
          /\ decoded.start_timestamp = start_timestamp
          /\ decoded.end_timestamp = end_timestamp
          /\ decoded.featured_trade_id = featured_vals.trade_id
          /\ decoded.featured_pair_index = featured_vals.pair_index
          /\ decoded.featured_is_buy = (featured_vals.is_buy = 1)
          /\ decoded.featured_is_buy = featured.is_buy
          /\ decoded.featured_leverage_raw = featured_vals.leverage
          /\ decoded.featured_collateral_micros = featured_vals.collateral_micros
          /\ decoded.featured_entry_price_raw = featured_vals.entry_price
          /\ decoded.featured_is_open = (featured_vals.is_open = 1)
          /\ decoded.featured_is_open = featured.is_open
          /\ decoded.featured_timestamp = featured_vals.timestamp

C7_Witness ==
    /\ pc = "decoded"
    /\ total_pnl_micros.neg
    /\ Len(featured_vals.entry_price) = 16
    /\ Len(start_timestamp) > 1

C9_FeesNeverIncreasePnl ==
    idx >= 1 =>
        /\ trade_pnl_micros = ZSub(price_pnl_micros, ExactFees(Last))
        /\ ZLe(trade_pnl_micros, price_pnl_micros)
        /\ idx = 1 => (win_count = 1 <=> ZIsPos(trade_pnl_micros))

ParsedTimestamps == {parse_u64(trades[k].timestamp) : k \in 1..Len(trades)}

\* C10: after the loop over a non-empty input start_timestamp is the least
\* and end_timestamp the greatest parsed timestamp; every committed buffer
\* has start_timestamp <= end_timestamp.
C10_Timestamps ==
    /\ (AfterLoop /\ trades # <<>>) =>
          /\ start_timestamp \in ParsedTimestamps
          /\ end_timestamp \in ParsedTimestamps
          /\ \A x \in ParsedTimestamps : NLe(start_timestamp, x) /\ NLe(x, end_timestamp)
    /\ Committed =>
          NLe(from_be_bytes(Slice(public_values, 44, 52)),
              from_be_bytes(Slice(public_values, 52, 60)))

C10_Witness ==
    /\ pc = "committed"
    /\ Len(trades) = 2
    /\ NLt(parse_u64(trades[2].timestamp), parse_u64(trades[1].timestamp))
    /\ start_timestamp = parse_u64(trades[2].timestamp)
    /\ start_timestamp # <<>>

=============================================================================
